---- MODULE Spec2Model ----
(***************************************************************************)
(* Third Space Vest bridge for Arma Reforger (armareforger-mod/Scripts/    *)
(* Game): the debounced hooks, the one-shot weapon hooks and the TCP       *)
(* client's connection state, as state machines.                           *)
(*                                                                         *)
(* Units.  Game time and the debounce intervals are counted in tenths of   *)
(* a second (0.5 s is 5, 0.2 s is 2, 5.0 s is 50).  Intensities are        *)
(* counted in tenths as well (the clamp range 1..10 is 10..100).           *)
(***************************************************************************)
EXTENDS Integers, Sequences, FiniteSets, TLC

\* ---------------------------------------------------------------- bounds
MaxTime == 5
MaxSent == 2
MaxAttempts == 3

\* ------------------------------------------------------ program constants
COLLISION_COOLDOWN == 5
ROTOR_FEEDBACK_INTERVAL == 2
SUPPRESSION_FEEDBACK_INTERVAL == 5
RECONNECT_INTERVAL == 50

\* ----------------------------------------------------------- the world
\* Component instances the engine creates.  P1 is the character of the
\* local player when the player controller controls an entity, P2 is
\* another character.
Vehicles == {"V1"}
Helis == {"H1", "H2"}
Chars == {"P1", "P2"}
NoEntity == "null"
LocalCharacter == "P1"
Seats == {NoEntity, "V1", "H1"}
\* Weapon and grenade entities and IEntity.GetParent(): W1 sits in the hand
\* slot S1 of the local character, W2 is held by the other character, G1 and
\* G2 are grenades thrown by P1 and P2, G3 lies in a pouch S1 of P1.
Weapons == {"W1", "W2"}
Grenades == {"G1", "G2", "G3"}
GetParent(e) ==
    CASE e = "W1" -> "S1"
      [] e = "S1" -> "P1"
      [] e = "W2" -> "P2"
      [] e = "G1" -> "P1"
      [] e = "G2" -> "P2"
      [] e = "G3" -> "S1"
      [] OTHER -> NoEntity
SlotTypes == {"PILOT", "CARGO"}

VARIABLES
    now,                             \* GetGame().GetTime()
    seat,                            \* vehicle whose compartment holds the local player
    slotType,                        \* type of that compartment slot
    m_fLastCollisionTime,            \* per VehicleWheeledSimulation
    m_fLastRotorFeedbackTime,        \* per SCR_HelicopterControllerComponent
    m_fLastSuppressionFeedbackTime,  \* per SCR_AISuppressionComponent
    s_bConnected,                    \* ThirdSpaceTcpClient.s_bConnected
    s_fLastReconnectAttempt,         \* ThirdSpaceTcpClient.s_fLastReconnectAttempt
    daemonUp,                        \* the daemon listens on DAEMON_HOST:DAEMON_PORT
    sent,                            \* SendEvent calls so far, oldest first
    wire,                            \* payloads written to the daemon's socket
    connectLog,                      \* times of the TryConnect attempts
    lastCall,                        \* the most recent hook invocation and its outcome
    args,                            \* arguments of a call of BuildEventJson on its own
    result,                          \* the string that call returned
    scene,                           \* where the observer and the target of a hit are
    script,                          \* the handler script whose hooks are exercised
    threads,                         \* where each engine thread stands in a debounced hook
    s_Instance,                      \* ThirdSpaceVestModClass.s_Instance
    alive                            \* the ThirdSpaceVestModClass instances that exist

callVars == <<args, result, scene, script>>
modVars == <<s_Instance, alive>>
worldVars == <<seat, slotType, callVars, threads, modVars>>
timerVars == <<m_fLastCollisionTime, m_fLastRotorFeedbackTime, m_fLastSuppressionFeedbackTime>>
connVars == <<s_bConnected, s_fLastReconnectAttempt, daemonUp, connectLog>>
outVars == <<sent, wire>>
vars == <<now, worldVars, timerVars, connVars, outVars, lastCall>>

\* ------------------------------------------------------------- helpers
\* Variant of Clamp: no upper limit.
Clamp_NoUpperLimit(value, lo, hi) == IF value < lo THEN lo ELSE value

\* Math.Clamp(value, min, max)
Clamp(value, lo, hi) == IF value < lo THEN lo ELSE IF value > hi THEN hi ELSE value

\* Math.Abs(value)
Abs(value) == IF value < 0 THEN 0 - value ELSE value

\* Value of a float that is not a number (a component of a normalised
\* zero-length vector, and everything computed from it).
NaN == 0 - 1000

\* Math.Sin / Math.Cos of yaw * Math.DEG2RAD, for the yaws in the tables.
SinDeg(yaw) == CASE yaw = 0 -> 0 [] yaw = 90 -> 1 [] yaw = 180 -> 0 [] yaw = 270 -> 0 - 1
CosDeg(yaw) == CASE yaw = 0 -> 1 [] yaw = 90 -> 0 [] yaw = 180 -> 0 - 1 [] yaw = 270 -> 0

\* A negative angle of less than 2^-16 degree, half the distance between
\* 360 and the float below it.
NegTiny == 0 - 2000

\* 1 / tan(2^-16 degree), rounded up: atan2(cross, dot) is a negative angle
\* of less than 2^-16 degree when 0 < -cross <= dot / HairRatio.
HairRatio == 3755000

\* Math.Atan2(cross, dot) * Math.RAD2DEG for arguments on the eight compass
\* directions (|cross| = |dot| or one of them zero) and for a direction a
\* hair below the positive dot axis; not a number when an argument is not a
\* number.
Atan2Deg(cross, dot) ==
    CASE cross = NaN \/ dot = NaN -> NaN
      [] cross # NaN /\ dot # NaN /\ cross = 0 -> (IF dot < 0 THEN 180 ELSE 0)
      [] cross # NaN /\ dot # NaN /\ cross # 0 /\ (dot = 0 \/ Abs(cross) = Abs(dot)) ->
            IF cross > 0 THEN (IF dot > 0 THEN 45 ELSE IF dot = 0 THEN 90 ELSE 135)
            ELSE (IF dot > 0 THEN 0 - 45 ELSE IF dot = 0 THEN 0 - 90 ELSE 0 - 135)
      [] cross # NaN /\ dot # NaN /\ cross < 0 /\ dot > 0 /\ Abs(cross) # Abs(dot)
            /\ 0 - cross <= dot \div HairRatio -> NegTiny

\* vector.Normalize() on the horizontal vector <<x, z>>.  The direction is
\* kept (the length does not change atan2); the source does not guard the
\* zero-length vector, whose normalisation is either left at zero or made of
\* not-a-number components.
NormalizeOutcomes(v) == IF v = <<0, 0>> THEN {<<0, 0>>, <<NaN, NaN>>} ELSE {v}

\* float * float with a possible not-a-number operand
Mul(a, b) == IF a = NaN \/ b = NaN THEN NaN ELSE a * b
\* float + float, float - float likewise; a NegTiny operand is lost in the
\* rounding of the sum with a whole number other than 0
Add(a, b) ==
    IF a = NaN \/ b = NaN THEN NaN
    ELSE IF a = NegTiny THEN (IF b = 0 THEN NegTiny ELSE b)
    ELSE IF b = NegTiny THEN (IF a = 0 THEN NegTiny ELSE a)
    ELSE a + b
Sub(a, b) == IF a = NaN \/ b = NaN THEN NaN ELSE a - b

\* Variant of AngleOf: the two products of the cross term are exchanged.
AngleOf_MirroredCross(yaw, dir) ==
    LET fx == SinDeg(yaw)
        fz == CosDeg(yaw)
        dot == Add(Mul(fx, dir[1]), Mul(fz, dir[2]))
        cross == Sub(Mul(fz, dir[1]), Mul(fx, dir[2]))
        angle == Atan2Deg(cross, dot)
    IN  IF angle # NaN /\ angle < 0 THEN Add(angle, 360) ELSE angle

\* The angle every Calculate...Angle function computes from the yaw of the
\* observer and the normalised horizontal direction to the target.
AngleOf(yaw, dir) ==
    LET fx == SinDeg(yaw)
        fz == CosDeg(yaw)
        dot == Add(Mul(fx, dir[1]), Mul(fz, dir[2]))
        cross == Sub(Mul(fx, dir[2]), Mul(fz, dir[1]))
        angle == Atan2Deg(cross, dot)
    IN  IF angle # NaN /\ angle < 0 THEN Add(angle, 360) ELSE angle

\* --------------------------------------------------------- TCP client
\* One SendEvent call: the arguments BuildEventJson receives, and the game
\* time of the call.
Event(eventType, angle, damage, intensity, t) ==
    [event |-> eventType, angle |-> angle, damage |-> damage,
     intensity |-> intensity, at |-> t]

\* ------------------------------------------------------- event encoder
\* Strings the encoder handles are sequences of one-character strings.
\* The event types the hooks pass to SendEvent.
EventTypes ==
    {"player_damage", "player_death", "player_heal", "vehicle_damage",
     "vehicle_explosion", "vehicle_collision", "helicopter_rotor",
     "explosion_nearby", "player_suppressed", "bullet_impact_near",
     "weapon_fire_rifle", "weapon_fire_mg", "weapon_fire_pistol",
     "weapon_fire_launcher", "weapon_reload", "grenade_throw"}

\* The characters of an event type.
Text(eventType) ==
    CASE eventType = "player_damage" ->
            <<"p", "l", "a", "y", "e", "r", "_", "d", "a", "m", "a", "g", "e">>
      [] eventType = "player_death" ->
            <<"p", "l", "a", "y", "e", "r", "_", "d", "e", "a", "t", "h">>
      [] eventType = "player_heal" ->
            <<"p", "l", "a", "y", "e", "r", "_", "h", "e", "a", "l">>
      [] eventType = "vehicle_damage" ->
            <<"v", "e", "h", "i", "c", "l", "e", "_", "d", "a", "m", "a", "g", "e">>
      [] eventType = "vehicle_explosion" ->
            <<"v", "e", "h", "i", "c", "l", "e", "_", "e", "x", "p", "l", "o", "s",
              "i", "o", "n">>
      [] eventType = "vehicle_collision" ->
            <<"v", "e", "h", "i", "c", "l", "e", "_", "c", "o", "l", "l", "i", "s",
              "i", "o", "n">>
      [] eventType = "helicopter_rotor" ->
            <<"h", "e", "l", "i", "c", "o", "p", "t", "e", "r", "_", "r", "o", "t",
              "o", "r">>
      [] eventType = "explosion_nearby" ->
            <<"e", "x", "p", "l", "o", "s", "i", "o", "n", "_", "n", "e", "a", "r",
              "b", "y">>
      [] eventType = "player_suppressed" ->
            <<"p", "l", "a", "y", "e", "r", "_", "s", "u", "p", "p", "r", "e", "s",
              "s", "e", "d">>
      [] eventType = "bullet_impact_near" ->
            <<"b", "u", "l", "l", "e", "t", "_", "i", "m", "p", "a", "c", "t", "_",
              "n", "e", "a", "r">>
      [] eventType = "weapon_fire_rifle" ->
            <<"w", "e", "a", "p", "o", "n", "_", "f", "i", "r", "e", "_", "r", "i",
              "f", "l", "e">>
      [] eventType = "weapon_fire_mg" ->
            <<"w", "e", "a", "p", "o", "n", "_", "f", "i", "r", "e", "_", "m", "g">>
      [] eventType = "weapon_fire_pistol" ->
            <<"w", "e", "a", "p", "o", "n", "_", "f", "i", "r", "e", "_", "p", "i",
              "s", "t", "o", "l">>
      [] eventType = "weapon_fire_launcher" ->
            <<"w", "e", "a", "p", "o", "n", "_", "f", "i", "r", "e", "_", "l", "a",
              "u", "n", "c", "h", "e", "r">>
      [] eventType = "weapon_reload" ->
            <<"w", "e", "a", "p", "o", "n", "_", "r", "e", "l", "o", "a", "d">>
      [] eventType = "grenade_throw" ->
            <<"g", "r", "e", "n", "a", "d", "e", "_", "t", "h", "r", "o", "w">>

\* The string literals of BuildEventJson.
OpenBrace == <<"{">>
CloseBrace == <<"}">>
CmdField_Misspelt ==
    <<"\"", "c", "m", "d", "\"", ":", "\"", "a", "r", "m", "a", "r", "e", "f", "o",
      "r", "g", "e", "r", "\"", ",">>
CmdField ==
    <<"\"", "c", "m", "d", "\"", ":", "\"", "a", "r", "m", "a", "r", "e", "f", "o",
      "r", "g", "e", "r", "_", "e", "v", "e", "n", "t", "\"", ",">>
EventFormat ==
    <<"\"", "e", "v", "e", "n", "t", "\"", ":", "\"", "%", "1", "\"", ",">>
AngleFormat ==
    <<"\"", "a", "n", "g", "l", "e", "\"", ":", "%", "1", ",">>
DamageFormat ==
    <<"\"", "d", "a", "m", "a", "g", "e", "\"", ":", "%", "1">>
IntensityFormat ==
    <<",", "\"", "i", "n", "t", "e", "n", "s", "i", "t", "y", "\"", ":", "%", "1">>

\* string.Format(fmt, arg): fmt with its placeholder %1 replaced by arg
Format(fmt, arg) ==
    LET i == CHOOSE k \in 1..(Len(fmt) - 1) : fmt[k] = "%" /\ fmt[k + 1] = "1"
    IN  SubSeq(fmt, 1, i - 1) \o arg \o SubSeq(fmt, i + 2, Len(fmt))

DigitChar(d) ==
    CASE d = 0 -> "0" [] d = 1 -> "1" [] d = 2 -> "2" [] d = 3 -> "3" [] d = 4 -> "4"
      [] d = 5 -> "5" [] d = 6 -> "6" [] d = 7 -> "7" [] d = 8 -> "8" [] d = 9 -> "9"

\* The decimal digits of a natural number.
RECURSIVE NatToString(_)
NatToString(n) ==
    IF n < 10 THEN <<DigitChar(n)>> ELSE NatToString(n \div 10) \o <<DigitChar(n % 10)>>

\* int.ToString()
IntToString(n) == IF n < 0 THEN <<"-">> \o NatToString(0 - n) ELSE NatToString(n)

\* Variant of FloatToString: the fraction is cut off.
FloatToString_Truncated(value, unit) ==
    IF value = NaN THEN <<"n", "a", "n">>
    ELSE (IF value < 0 THEN <<"-">> ELSE <<>>) \o NatToString(Abs(value) \div unit)

\* float.ToString() of a value counted in 1/unit (unit 1 for angles in whole
\* degrees, unit 10 for intensities in tenths): the shortest decimal text,
\* without a fraction for a whole value.
FloatToString(value, unit) ==
    IF value = NaN THEN <<"n", "a", "n">>
    ELSE LET whole == Abs(value) \div unit
             frac == Abs(value) % unit
         IN  (IF value < 0 THEN <<"-">> ELSE <<>>)
                 \o NatToString(whole)
                 \o (IF frac = 0 THEN <<>> ELSE <<".">> \o NatToString(frac))

\* Variant of BuildEventJson: the intensity field is written for every
\* intensity that is not negative.
BuildEventJson_ZeroIntensity(eventType, angle, damage, intensity) ==
    LET json == OpenBrace
                    \o CmdField
                    \o Format(EventFormat, Text(eventType))
                    \o Format(AngleFormat, FloatToString(angle, 1))
                    \o Format(DamageFormat, IntToString(damage))
    IN  (IF intensity >= 0
         THEN json \o Format(IntensityFormat, FloatToString(intensity, 10))
         ELSE json) \o CloseBrace

\* BuildEventJson(eventType, angle, damage, intensity)
BuildEventJson(eventType, angle, damage, intensity) ==
    LET json == OpenBrace
                    \o CmdField
                    \o Format(EventFormat, Text(eventType))
                    \o Format(AngleFormat, FloatToString(angle, 1))
                    \o Format(DamageFormat, IntToString(damage))
    IN  (IF intensity > 0
         THEN json \o Format(IntensityFormat, FloatToString(intensity, 10))
         ELSE json) \o CloseBrace

\* ------------------------------------------- the daemon's reading of a message
\* A message is read as one JSON object whose members are strings or
\* numbers; the members come out in the order they stand in the text.
Malformed == 0 - 3000

\* Index of the first character of s at or after position i that is in chs,
\* 0 if there is none.
Find(s, chs, i) ==
    LET ks == {k \in i..Len(s) : s[k] \in chs}
    IN  IF ks = {} THEN 0 ELSE CHOOSE k \in ks : \A m \in ks : k <= m

RECURSIVE ParseMembers(_, _, _)
ParseMembers(s, i, acc) ==
    LET bad == [ok |-> FALSE, members |-> acc]
        keyEnd == Find(s, {"\""}, i + 1)
    IN  IF i > Len(s) \/ s[i] # "\"" \/ keyEnd = 0 \/ keyEnd + 2 > Len(s) \/ s[keyEnd + 1] # ":"
        THEN bad
        ELSE LET v == keyEnd + 2
                 quoted == s[v] = "\""
                 strEnd == Find(s, {"\""}, v + 1)
                 valEnd == IF quoted
                           THEN (IF strEnd = 0 THEN 0 ELSE strEnd + 1)
                           ELSE Find(s, {",", "}"}, v)
                 member == [key |-> SubSeq(s, i + 1, keyEnd - 1),
                            quoted |-> quoted,
                            text |-> IF quoted THEN SubSeq(s, v + 1, strEnd - 1)
                                     ELSE SubSeq(s, v, valEnd - 1)]
             IN  IF valEnd = 0 \/ valEnd > Len(s) THEN bad
                 ELSE IF s[valEnd] = "}"
                 THEN [ok |-> valEnd = Len(s), members |-> Append(acc, member)]
                 ELSE IF s[valEnd] = "," THEN ParseMembers(s, valEnd + 1, Append(acc, member))
                 ELSE bad

ParseJson(s) ==
    IF Len(s) < 2 \/ s[1] # "{" THEN [ok |-> FALSE, members |-> <<>>]
    ELSE ParseMembers(s, 2, <<>>)

Digits == {"0", "1", "2", "3", "4", "5", "6", "7", "8", "9"}
DigitValue(c) ==
    CASE c = "0" -> 0 [] c = "1" -> 1 [] c = "2" -> 2 [] c = "3" -> 3 [] c = "4" -> 4
      [] c = "5" -> 5 [] c = "6" -> 6 [] c = "7" -> 7 [] c = "8" -> 8 [] c = "9" -> 9

RECURSIVE NatOf(_)
NatOf(t) ==
    IF t = <<>> THEN 0
    ELSE NatOf(SubSeq(t, 1, Len(t) - 1)) * 10 + DigitValue(t[Len(t)])

\* The value of a JSON number text, counted in 1/unit; Malformed when the
\* text is not a number or has more decimals than the unit holds.
ParseNumber(text, unit) ==
    LET neg == Len(text) > 0 /\ text[1] = "-"
        body == IF neg THEN Tail(text) ELSE text
        dot == Find(body, {"."}, 1)
        whole == IF dot = 0 THEN body ELSE SubSeq(body, 1, dot - 1)
        frac == IF dot = 0 THEN <<>> ELSE SubSeq(body, dot + 1, Len(body))
        isDigits(t) == Len(t) > 0 /\ \A k \in 1..Len(t) : t[k] \in Digits
        ok == /\ isDigits(whole)
              /\ dot # 0 => (unit = 10 /\ Len(frac) = 1 /\ isDigits(frac))
        magnitude == NatOf(whole) * unit + NatOf(frac)
    IN  IF ~ok THEN Malformed ELSE IF neg THEN 0 - magnitude ELSE magnitude

\* The names of the members of a parsed message, in order.
FieldNames(parsed) == [k \in 1..Len(parsed.members) |-> parsed.members[k].key]

\* The text of the member called name, and whether it was a quoted string.
HasField(parsed, name) == \E k \in 1..Len(parsed.members) : parsed.members[k].key = name
FieldOf(parsed, name) ==
    parsed.members[CHOOSE k \in 1..Len(parsed.members) : parsed.members[k].key = name]

KeyCmd == <<"c", "m", "d">>
KeyEvent == <<"e", "v", "e", "n", "t">>
KeyAngle == <<"a", "n", "g", "l", "e">>
KeyDamage == <<"d", "a", "m", "a", "g", "e">>
KeyIntensity == <<"i", "n", "t", "e", "n", "s", "i", "t", "y">>

\* The event a message decodes to; intensity 0 stands for an absent
\* intensity member.
DecodeEvent(s) ==
    LET parsed == ParseJson(s)
    IN  [event |-> FieldOf(parsed, KeyEvent).text,
         angle |-> ParseNumber(FieldOf(parsed, KeyAngle).text, 1),
         damage |-> ParseNumber(FieldOf(parsed, KeyDamage).text, 1),
         hasIntensity |-> HasField(parsed, KeyIntensity),
         intensity |-> IF HasField(parsed, KeyIntensity)
                       THEN ParseNumber(FieldOf(parsed, KeyIntensity).text, 10)
                       ELSE 0]

\* Variant of SocketWrite: the payload is written whatever the connection
\* state.
SocketWrite_Unchecked(w, connected, payload) == Append(w, payload)

\* What SendEvent writes to the daemon's socket: nothing, in every
\* connection state (the payload is built and logged only).
SocketWrite(w, connected, payload) == w

\* ThirdSpaceVest_SendEvent / ThirdSpaceTcpClient.SendEvent, for the events
\* one hook invocation sends, in order (at most MaxSent calls are followed).
RECURSIVE WriteAll(_, _, _)
WriteAll(w, connected, events) ==
    IF events = <<>> THEN w
    ELSE WriteAll(SocketWrite(w, connected, Head(events)), connected, Tail(events))

SendEvents(events) ==
    /\ Len(sent) + Len(events) <= MaxSent
    /\ sent' = sent \o events
    /\ wire' = WriteAll(wire, s_bConnected, events)

\* The arguments (eventType, angle, damage, intensity) BuildEventJson is
\* called with: every event type, angles and damages as the hooks pass them,
\* intensity absent (0), negative, or in the clamp range.
NoArgs == [event |-> "none", angle |-> 0, damage |-> 0, intensity |-> 0]
EncoderAngles == {0, 90, 180, 359}
EncoderDamages == {0, 20, 100}
EncoderIntensities == {0 - 10, 0, 10, 35, 100}
EncoderInputs ==
    [event : EventTypes, angle : EncoderAngles, damage : EncoderDamages,
     intensity : EncoderIntensities]

\* A hook invocation: which hook, on which component, how it ended ("gated":
\* the local-player test failed; "filtered": engine off or negligible
\* suppression; "debounced": stopped by the cool-down test; "emitted": passed
\* the cool-down test and sent; "error" / "noowner": passed the cool-down
\* test and stopped on a null owner; "passed": a one-shot hook passed the
\* local-player test; "terminal": a damage hook found the health at or below
\* zero after sending; "tested": a thread passed the cool-down test and has
\* yet to assign the time stamp).  NoCall when the last step was not a call into the mod.
NoCall == [hook |-> "none", self |-> NoEntity, outcome |-> "none"]
Call(hook, self, outcome) == [hook |-> hook, self |-> self, outcome |-> outcome]

\* The payload SendEvent builds for the call recorded as e.
Payload(e) == BuildEventJson(e.event, e.angle, e.damage, e.intensity)

\* BuildEventJson called with the arguments args; result is what it returns.
BuildEventJsonCall ==
    /\ args # NoArgs
    /\ result = <<>>
    /\ result' = BuildEventJson(args.event, args.angle, args.damage, args.intensity)
    /\ lastCall' = Call("BuildEventJson", NoEntity, "returned")
    /\ UNCHANGED <<now, seat, slotType, args, scene, script, threads, modVars, timerVars,
                   connVars, outVars>>

\* ------------------------------------------------------- hook inputs
\* yaw of the observer, and horizontal offset <<x, z>> of the target (or the
\* horizontal contact normal): straight behind, or none
Yaws == {0}
Directions == {<<0, 0 - 1>>, <<0, 0>>}
ImpactSpeeds == {0 - 150, 4, 40}
SuppressionAmounts == {5, 50, 150}

\* playerController.GetControlledEntity(), given whether it is non-null
Controlled(ce) == IF ce THEN LocalCharacter ELSE NoEntity

\* compartment.GetVehicle(): the vehicle of the local player's compartment
PlayerVehicle == seat

\* The handler scripts (one source file each), for the specification that
\* exercises the hooks of one script at a time.
Scripts ==
    {"ThirdSpacePlayerDamageHandler", "ThirdSpaceVehicleHandler",
     "ThirdSpaceEnvironmentHandler", "ThirdSpaceWeaponHandler"}
NoScript == "none"

\* Positions are <<x, y, z>> in micrometres; y is the height.
Metre == 1000000
NoScene == [origin |-> <<0, 0, 0>>, yaw |-> 0, target |-> <<0, 0, 0>>, damage |-> 0]

\* The observer (the local player's character, or the vehicle that carries
\* it) stands at the origin with one of four yaws; the target (hit position,
\* explosion, bullet impact) is 5 m away along an axis, straight above the
\* observer or, for yaw 0, a micrometre to the right of straight ahead or
\* 48 m or 60 m ahead; the damage is that of the hit.
AxisTargets ==
    {<<0, 0, 5 * Metre>>, <<0, 0, 0 - 5 * Metre>>, <<5 * Metre, 0, 0>>, <<0 - 5 * Metre, 0, 0>>}
AboveTarget == <<0, 3 * Metre, 0>>
HairRightTarget == <<1, 0, 5 * Metre>>
FarTarget == <<0, 0, 60 * Metre>>
DistantTarget == <<0, 0, 48 * Metre>>
SceneYaws == {0, 90, 180, 270}
SceneDamages == {0 - 5, 0, 20}
Scenes ==
    [origin : {<<0, 0, 0>>}, yaw : SceneYaws, target : AxisTargets \cup {AboveTarget},
     damage : SceneDamages]
    \cup [origin : {<<0, 0, 0>>}, yaw : {0},
          target : {HairRightTarget, FarTarget, DistantTarget}, damage : SceneDamages]

\* a - b on vectors, and the vector with its height dropped (v[1] = 0 in the
\* source, whose index 1 is the height)
VectorSub(a, b) == <<a[1] - b[1], a[2] - b[2], a[3] - b[3]>>
Horizontal(v) == <<v[1], v[3]>>

\* vector.Distance(a, b) for points that lie apart along one axis, a
\* component of at most 1/HairRatio of the largest being lost in the
\* rounding of the sum of squares.
Distance(a, b) ==
    LET v == VectorSub(a, b)
        m == CHOOSE c \in {Abs(v[1]), Abs(v[2]), Abs(v[3])} :
                 \A o \in {Abs(v[1]), Abs(v[2]), Abs(v[3])} : o <= c
    IN  CASE Cardinality({k \in 1..3 : Abs(v[k]) > m \div HairRatio}) <= 1 -> m

\* ------------------------------------------------------ debounce core
\* The cool-down test of the three debounced hooks:
\*   currentTime - m_fLast...Time < interval
Debounced(currentTime, last, interval) == currentTime - last < interval

\* Variant of StampAfter: the stamp is assigned before the cool-down test.
StampAfter_BeforeTest(last, currentTime, suppressed) == currentTime

\* The time stamp a debounced hook leaves: it is assigned only after the
\* cool-down test has let the invocation through.
StampAfter(last, currentTime, suppressed) == IF suppressed THEN last ELSE currentTime

\* Variant of CollisionStamps: one time stamp shared by all debounced hooks.
CollisionStamps_Shared(self, t) ==
    <<[m_fLastCollisionTime EXCEPT ![self] = t],
      [h \in Helis |-> t],
      [c \in Chars |-> t]>>

\* The three time stamps after an invocation of the collision hook of
\* vehicle self that left stamp t in its own field.
CollisionStamps(self, t) ==
    <<[m_fLastCollisionTime EXCEPT ![self] = t],
      m_fLastRotorFeedbackTime,
      m_fLastSuppressionFeedbackTime>>

\* --------------------------------------- VehicleWheeledSimulation
IsLocalPlayerInVehicle(pc, ce, comp, vehicleEntity) ==
    /\ pc
    /\ ce
    /\ comp
    /\ PlayerVehicle = vehicleEntity

\* CalculateImpactAngle(vehicle, impactDir), for each outcome of Normalize
CalculateImpactAngle(yaw, impactDir) ==
    {AngleOf(yaw, n) : n \in NormalizeOutcomes(impactDir)}

OnContact(self) ==
    \E owner \in {self, NoEntity}, pc \in BOOLEAN, ce \in BOOLEAN, comp \in BOOLEAN :
        LET local == IsLocalPlayerInVehicle(pc, ce, comp, owner)
            last == m_fLastCollisionTime[self]
            suppressed == Debounced(now, last, COLLISION_COOLDOWN)
        IN  /\ UNCHANGED <<now, worldVars, connVars>>
            /\ IF ~local
               THEN /\ UNCHANGED <<timerVars, outVars>>
                    /\ lastCall' = Call("OnContact", self, "gated")
               ELSE /\ LET stamps == CollisionStamps(self, StampAfter(last, now, suppressed))
                       IN  /\ m_fLastCollisionTime' = stamps[1]
                           /\ m_fLastRotorFeedbackTime' = stamps[2]
                           /\ m_fLastSuppressionFeedbackTime' = stamps[3]
                    /\ IF suppressed
                       THEN /\ UNCHANGED outVars
                            /\ lastCall' = Call("OnContact", self, "debounced")
                       ELSE IF owner = NoEntity
                       THEN \* vehicle.GetYawPitchRoll() on a null vehicle
                            /\ UNCHANGED outVars
                            /\ lastCall' = Call("OnContact", self, "error")
                       ELSE \E impactSpeed \in ImpactSpeeds, impactDir \in Directions, yaw \in Yaws :
                            \E angle \in CalculateImpactAngle(yaw, impactDir) :
                                LET intensity == Clamp(Abs(impactSpeed), 10, 100)
                                IN  /\ SendEvents(<<Event("vehicle_collision", angle, 0, intensity, now)>>)
                                    /\ lastCall' = Call("OnContact", self, "emitted")

\* Variant of IsNegligible: a damage of 0 is let through.
IsNegligible_NegativeOnly(damage) == damage < 0

\* "Skip if damage is negligible", the test of both OnDamage hooks
IsNegligible(damage) == damage <= 0

\* Variant of DamageSends: the terminal event is sent before the damage
\* event.
DamageSends_TerminalFirst(damageEvent, terminalEvent, angle, damage, terminalDamage, lethal, t) ==
    (IF lethal THEN <<Event(terminalEvent, angle, terminalDamage, 0, t)>> ELSE <<>>)
        \o <<Event(damageEvent, angle, damage, 0, t)>>

\* The SendEvent calls of a damage hook once its angle is computed: the
\* damage event, then the terminal event if GetHealthScaled() <= 0.
DamageSends(damageEvent, terminalEvent, angle, damage, terminalDamage, lethal, t) ==
    <<Event(damageEvent, angle, damage, 0, t)>>
        \o (IF lethal THEN <<Event(terminalEvent, angle, terminalDamage, 0, t)>> ELSE <<>>)

\* ----------------------------- SCR_VehicleDamageManagerComponent
\* IsLocalPlayerInVehicle() of the vehicle damage manager
DamageManagerIsLocalPlayerInVehicle(owner, pc, ce, comp) ==
    /\ owner # NoEntity
    /\ pc
    /\ ce
    /\ comp
    /\ PlayerVehicle = owner

\* CalculateHitAngle(hitPosition), for each outcome of Normalize
CalculateHitAngle(owner, vehiclePos, vehicleYaw, hitPosition) ==
    IF owner = NoEntity THEN {0}
    ELSE {AngleOf(vehicleYaw, n) :
              n \in NormalizeOutcomes(Horizontal(VectorSub(hitPosition, vehiclePos)))}

\* OnDamage of the vehicle damage manager of vehicle self
VehicleOnDamage(self) ==
    \E owner \in {self, NoEntity}, pc \in BOOLEAN, ce \in BOOLEAN, comp \in BOOLEAN :
        LET local == DamageManagerIsLocalPlayerInVehicle(owner, pc, ce, comp)
            damage == scene.damage
        IN  /\ UNCHANGED <<now, worldVars, timerVars, connVars>>
            /\ IF ~local
               THEN /\ UNCHANGED outVars
                    /\ lastCall' = Call("VehicleOnDamage", self, "gated")
               ELSE IF IsNegligible(damage)
               THEN /\ UNCHANGED outVars
                    /\ lastCall' = Call("VehicleOnDamage", self, "filtered")
               ELSE \E destroyed \in BOOLEAN :
                    \E angle \in CalculateHitAngle(owner, scene.origin, scene.yaw, scene.target) :
                        /\ SendEvents(DamageSends("vehicle_damage", "vehicle_explosion",
                                                  angle, damage, 100, destroyed, now))
                        /\ lastCall' = Call("VehicleOnDamage", self,
                                            IF destroyed THEN "terminal" ELSE "emitted")

\* ------------------------------- SCR_HelicopterControllerComponent
GetRotorIntensity == 30

IsLocalPlayerPilot(owner, pc, ce, comp) ==
    /\ owner # NoEntity
    /\ pc
    /\ ce
    /\ comp
    /\ seat # NoEntity
    /\ slotType = "PILOT"

OnUpdate(self) ==
    \E owner \in {self, NoEntity}, pc \in BOOLEAN, ce \in BOOLEAN, comp \in BOOLEAN,
       engineOn \in BOOLEAN :
        LET local == IsLocalPlayerPilot(owner, pc, ce, comp)
            last == m_fLastRotorFeedbackTime[self]
            suppressed == Debounced(now, last, ROTOR_FEEDBACK_INTERVAL)
        IN  /\ UNCHANGED <<now, worldVars, connVars>>
            /\ IF ~local
               THEN /\ UNCHANGED <<timerVars, outVars>>
                    /\ lastCall' = Call("OnUpdate", self, "gated")
               ELSE IF ~engineOn
               THEN /\ UNCHANGED <<timerVars, outVars>>
                    /\ lastCall' = Call("OnUpdate", self, "filtered")
               ELSE /\ m_fLastRotorFeedbackTime' =
                          [m_fLastRotorFeedbackTime EXCEPT ![self] = StampAfter(last, now, suppressed)]
                    /\ UNCHANGED <<m_fLastCollisionTime, m_fLastSuppressionFeedbackTime>>
                    /\ IF suppressed
                       THEN /\ UNCHANGED outVars
                            /\ lastCall' = Call("OnUpdate", self, "debounced")
                       ELSE /\ SendEvents(<<Event("helicopter_rotor", 180, 0, GetRotorIntensity, now)>>)
                            /\ lastCall' = Call("OnUpdate", self, "emitted")

\* ---------------------------------------- SCR_AISuppressionComponent
IsLocalPlayer(owner, pc, ce) ==
    /\ owner # NoEntity
    /\ pc
    /\ Controlled(ce) = owner

\* CalculateAngleToSource(player, sourcePos), for each outcome of Normalize
CalculateAngleToSource(yaw, toSource) ==
    {AngleOf(yaw, n) : n \in NormalizeOutcomes(toSource)}

OnSuppressionUpdate(self) ==
    \E owner \in {self, NoEntity}, pc \in BOOLEAN, ce \in BOOLEAN,
       suppressionAmount \in SuppressionAmounts :
        LET local == IsLocalPlayer(owner, pc, ce)
            last == m_fLastSuppressionFeedbackTime[self]
            suppressed == Debounced(now, last, SUPPRESSION_FEEDBACK_INTERVAL)
            intensity == Clamp(suppressionAmount, 10, 100)
        IN  /\ UNCHANGED <<now, worldVars, connVars>>
            /\ IF ~local
               THEN /\ UNCHANGED <<timerVars, outVars>>
                    /\ lastCall' = Call("OnSuppressionUpdate", self, "gated")
               ELSE IF suppressionAmount < 10
               THEN /\ UNCHANGED <<timerVars, outVars>>
                    /\ lastCall' = Call("OnSuppressionUpdate", self, "filtered")
               ELSE /\ m_fLastSuppressionFeedbackTime' =
                          [m_fLastSuppressionFeedbackTime EXCEPT ![self] = StampAfter(last, now, suppressed)]
                    /\ UNCHANGED <<m_fLastCollisionTime, m_fLastRotorFeedbackTime>>
                    /\ IF suppressed
                       THEN /\ UNCHANGED outVars
                            /\ lastCall' = Call("OnSuppressionUpdate", self, "debounced")
                       ELSE IF owner = NoEntity
                       THEN /\ UNCHANGED outVars
                            /\ lastCall' = Call("OnSuppressionUpdate", self, "noowner")
                       ELSE \E toSource \in Directions, yaw \in Yaws :
                            \E angle \in CalculateAngleToSource(yaw, toSource) :
                                /\ SendEvents(<<Event("player_suppressed", angle, 0, intensity, now)>>)
                                /\ lastCall' = Call("OnSuppressionUpdate", self, "emitted")

\* ------------------------------------------------ SCR_WeaponComponent
\* Entity names, as sequences of characters.
WeaponNames ==
    {<<"M", "1", "6">>,
     <<"P", "K", "M">>,
     <<"M", "9", "_", "P", "i", "s", "t", "o", "l">>,
     <<"R", "P", "G", "7">>,
     <<"M", "G", "_", "P", "i", "s", "t", "o", "l">>}

\* string.ToLower(), on the characters the names use
LowerChar(c) ==
    CASE c = "M" -> "m" [] c = "P" -> "p" [] c = "K" -> "k" [] c = "R" -> "r"
      [] c = "G" -> "g" [] OTHER -> c
ToLower(str) == [i \in 1..Len(str) |-> LowerChar(str[i])]

\* string.Contains(sub)
Contains(str, sub) ==
    \E i \in 0..(Len(str) - Len(sub)) :
        \A j \in 1..Len(sub) : str[i + j] = sub[j]

GetWeaponEventType(isBaseWeapon, weaponEntity, entityName) ==
    LET weaponName == ToLower(entityName)
    IN  IF ~isBaseWeapon THEN "weapon_fire_rifle"
        ELSE IF weaponEntity = NoEntity THEN "weapon_fire_rifle"
        ELSE IF \/ Contains(weaponName, <<"m", "g">>)
                \/ Contains(weaponName, <<"m", "6", "0">>)
                \/ Contains(weaponName, <<"m", "2", "4", "0">>)
                \/ Contains(weaponName, <<"p", "k", "m">>)
        THEN "weapon_fire_mg"
        ELSE IF \/ Contains(weaponName, <<"p", "i", "s", "t", "o", "l">>)
                \/ Contains(weaponName, <<"m", "9">>)
                \/ Contains(weaponName, <<"g", "l", "o", "c", "k">>)
                \/ Contains(weaponName, <<"m", "a", "k", "a", "r", "o", "v">>)
        THEN "weapon_fire_pistol"
        ELSE IF \/ Contains(weaponName, <<"r", "p", "g">>)
                \/ Contains(weaponName, <<"l", "a", "u", "n", "c", "h", "e", "r">>)
                \/ Contains(weaponName, <<"c", "a", "r", "l">>)
                \/ Contains(weaponName, <<"a", "t", "4">>)
        THEN "weapon_fire_launcher"
        ELSE "weapon_fire_rifle"

\* The while loop of IsLocalPlayerWeapon, from the entity character upwards.
RECURSIVE AncestorIsControlled(_, _, _)
AncestorIsControlled(character, pc, ce) ==
    IF character = NoEntity THEN FALSE
    ELSE IF pc /\ Controlled(ce) = character THEN TRUE
    ELSE AncestorIsControlled(GetParent(character), pc, ce)

IsLocalPlayerWeapon(owner, pc, ce) ==
    /\ owner # NoEntity
    /\ AncestorIsControlled(GetParent(owner), pc, ce)

\* Variant of OneShotSends: a one-shot category throttled like the debounced
\* ones, dropping a call made at the time of the previous one.
OneShotSends_Throttled(local, eventType, t) ==
    IF local /\ ~(\E i \in 1..Len(sent) : sent[i].event = eventType /\ sent[i].at = t)
    THEN <<Event(eventType, 0, 0, 0, t)>>
    ELSE <<>>

\* The SendEvent calls of one hook invocation of a one-shot category: one
\* call when the local-player test passed, whatever the time of the
\* previous call.
OneShotSends(local, eventType, t) ==
    IF local THEN <<Event(eventType, 0, 0, 0, t)>> ELSE <<>>

OnWeaponFire(self) ==
    \E owner \in {self, NoEntity}, pc \in BOOLEAN, ce \in BOOLEAN :
        LET local == IsLocalPlayerWeapon(owner, pc, ce)
        IN  /\ UNCHANGED <<now, worldVars, timerVars, connVars>>
            /\ IF ~local
               THEN /\ UNCHANGED outVars
                    /\ lastCall' = Call("OnWeaponFire", self, "gated")
               ELSE \E isBaseWeapon \in BOOLEAN, entityName \in WeaponNames :
                    /\ SendEvents(OneShotSends(local,
                                    GetWeaponEventType(isBaseWeapon, owner, entityName), now))
                    /\ lastCall' = Call("OnWeaponFire", self, "passed")

OnReloadComplete(self) ==
    \E owner \in {self, NoEntity}, pc \in BOOLEAN, ce \in BOOLEAN :
        LET local == IsLocalPlayerWeapon(owner, pc, ce)
        IN  /\ UNCHANGED <<now, worldVars, timerVars, connVars>>
            /\ SendEvents(OneShotSends(local, "weapon_reload", now))
            /\ lastCall' = Call("OnReloadComplete", self, IF local THEN "passed" ELSE "gated")

\* ----------------------------------------------- SCR_GrenadeComponent
IsLocalPlayerGrenade(owner, pc, ce) ==
    /\ owner # NoEntity
    /\ GetParent(owner) # NoEntity
    /\ pc
    /\ Controlled(ce) = GetParent(owner)

OnThrow(self) ==
    \E owner \in {self, NoEntity}, pc \in BOOLEAN, ce \in BOOLEAN :
        LET local == IsLocalPlayerGrenade(owner, pc, ce)
        IN  /\ UNCHANGED <<now, worldVars, timerVars, connVars>>
            /\ SendEvents(OneShotSends(local, "grenade_throw", now))
            /\ lastCall' = Call("OnThrow", self, IF local THEN "passed" ELSE "gated")

\* --------------------------- SCR_CharacterDamageManagerComponent
\* Variant of CalculateDamageAngle: the direction runs from the hit to the
\* player.
CalculateDamageAngle_FromHit(owner, playerPos, playerYaw, hitPosition) ==
    IF owner = NoEntity THEN {0}
    ELSE {AngleOf(playerYaw, n) :
              n \in NormalizeOutcomes(Horizontal(VectorSub(playerPos, hitPosition)))}

\* CalculateDamageAngle(hitPosition), for each outcome of Normalize
CalculateDamageAngle(owner, playerPos, playerYaw, hitPosition) ==
    IF owner = NoEntity THEN {0}
    ELSE {AngleOf(playerYaw, n) :
              n \in NormalizeOutcomes(Horizontal(VectorSub(hitPosition, playerPos)))}

\* OnDamage of the damage manager of character self
OnDamage(self) ==
    \E owner \in {self, NoEntity}, pc \in BOOLEAN, ce \in BOOLEAN :
        LET local == IsLocalPlayer(owner, pc, ce)
            damage == scene.damage
        IN  /\ UNCHANGED <<now, worldVars, timerVars, connVars>>
            /\ IF ~local
               THEN /\ UNCHANGED outVars
                    /\ lastCall' = Call("OnDamage", self, "gated")
               ELSE IF IsNegligible(damage)
               THEN /\ UNCHANGED outVars
                    /\ lastCall' = Call("OnDamage", self, "filtered")
               ELSE \E dead \in BOOLEAN :
                    \E angle \in CalculateDamageAngle(owner, scene.origin, scene.yaw, scene.target) :
                        /\ SendEvents(DamageSends("player_damage", "player_death",
                                                  angle, damage, damage, dead, now))
                        /\ lastCall' = Call("OnDamage", self,
                                            IF dead THEN "terminal" ELSE "emitted")

\* healAmount of OnHeal, in health points
HealAmounts == {5, 35, 250}

\* OnHeal of the damage manager of character self
OnHeal(self) ==
    \E owner \in {self, NoEntity}, pc \in BOOLEAN, ce \in BOOLEAN :
        LET local == IsLocalPlayer(owner, pc, ce)
        IN  /\ UNCHANGED <<now, worldVars, timerVars, connVars>>
            /\ IF ~local
               THEN /\ UNCHANGED outVars
                    /\ lastCall' = Call("OnHeal", self, "gated")
               ELSE \E healAmount \in HealAmounts :
                        LET intensity == Clamp(healAmount, 10, 100)
                        IN  /\ SendEvents(<<Event("player_heal", 0, 0, intensity, now)>>)
                            /\ lastCall' = Call("OnHeal", self, "emitted")

\* ------------------------------ SCR_ExplosionDamageManagerComponent
\* CalculateAngleToPosition(player, targetPos), for each outcome of Normalize
CalculateAngleToPosition(playerPos, playerYaw, targetPos) ==
    {AngleOf(playerYaw, n) :
         n \in NormalizeOutcomes(Horizontal(VectorSub(targetPos, playerPos)))}

OnExplosion ==
    \E pc \in BOOLEAN, ce \in BOOLEAN :
        LET distance == Distance(scene.target, scene.origin)
            intensity == Clamp(100 - (2 * distance) \div Metre, 10, 100)
        IN  /\ UNCHANGED <<now, worldVars, timerVars, connVars>>
            /\ IF ~pc \/ ~ce
               THEN /\ UNCHANGED outVars
                    /\ lastCall' = Call("OnExplosion", NoEntity, "gated")
               ELSE IF distance > 50 * Metre
               THEN /\ UNCHANGED outVars
                    /\ lastCall' = Call("OnExplosion", NoEntity, "filtered")
               ELSE \E angle \in CalculateAngleToPosition(scene.origin, scene.yaw, scene.target) :
                        /\ SendEvents(<<Event("explosion_nearby", angle, 0, intensity, now)>>)
                        /\ lastCall' = Call("OnExplosion", NoEntity, "emitted")

\* ------------------------------------------ SCR_ProjectileComponent
\* CalculateAngleToImpact(player, impactPos), for each outcome of Normalize
CalculateAngleToImpact(playerPos, playerYaw, impactPos) ==
    {AngleOf(playerYaw, n) :
         n \in NormalizeOutcomes(Horizontal(VectorSub(impactPos, playerPos)))}

OnImpact ==
    \E pc \in BOOLEAN, ce \in BOOLEAN, targetIsPlayer \in BOOLEAN :
        LET distance == Distance(scene.target, scene.origin)
            intensity == Clamp(50 - (10 * distance) \div Metre, 10, 50)
        IN  /\ UNCHANGED <<now, worldVars, timerVars, connVars>>
            /\ IF ~pc \/ ~ce
               THEN /\ UNCHANGED outVars
                    /\ lastCall' = Call("OnImpact", NoEntity, "gated")
               ELSE IF targetIsPlayer \/ distance > 5 * Metre
               THEN /\ UNCHANGED outVars
                    /\ lastCall' = Call("OnImpact", NoEntity, "filtered")
               ELSE \E angle \in CalculateAngleToImpact(scene.origin, scene.yaw, scene.target) :
                        /\ SendEvents(<<Event("bullet_impact_near", angle, 0, intensity, now)>>)
                        /\ lastCall' = Call("OnImpact", NoEntity, "emitted")

\* ------------------------------------------------- two engine threads
\* The debounced hooks as two engine threads run them.  No statement of a
\* hook takes a lock, so another thread may run between the cool-down test of
\* an invocation and the assignment of its time stamp: an invocation is two
\* steps, the part up to the test and the part after it.
Threads == {"T1", "T2"}
Idle == [pc |-> "idle", hook |-> "none", self |-> NoEntity, owner |-> NoEntity,
         currentTime |-> 0]
Passed(hook, self, owner, currentTime) ==
    [pc |-> "passed", hook |-> hook, self |-> self, owner |-> owner,
     currentTime |-> currentTime]

\* How the part of a hook up to its cool-down test ends.
TestOutcome(local, admitted, suppressed) ==
    IF ~local THEN "gated"
    ELSE IF ~admitted THEN "filtered"
    ELSE IF suppressed THEN "debounced"
    ELSE "tested"

\* Thread t runs a hook up to its cool-down test: it goes on to the
\* assignment of the time stamp only when the test let it through.
RunTest(t, hook, self, owner, local, admitted, suppressed) ==
    /\ threads[t].pc = "idle"
    /\ threads' = [threads EXCEPT ![t] =
                      IF local /\ admitted /\ ~suppressed
                      THEN Passed(hook, self, owner, now)
                      ELSE Idle]
    /\ lastCall' = Call(hook, self, TestOutcome(local, admitted, suppressed))
    /\ UNCHANGED <<now, seat, slotType, callVars, modVars, timerVars, connVars, outVars>>

\* OnContact up to "if (currentTime - m_fLastCollisionTime < COLLISION_COOLDOWN)"
OnContactTest(t, self) ==
    \E owner \in {self, NoEntity}, pc \in BOOLEAN, ce \in BOOLEAN, comp \in BOOLEAN :
        RunTest(t, "OnContact", self, owner,
                IsLocalPlayerInVehicle(pc, ce, comp, owner), TRUE,
                Debounced(now, m_fLastCollisionTime[self], COLLISION_COOLDOWN))

\* OnContact from "m_fLastCollisionTime = currentTime" to its end
OnContactRest(t) ==
    LET self == threads[t].self
        currentTime == threads[t].currentTime
        stamps == CollisionStamps(self, currentTime)
    IN  /\ threads[t].pc = "passed"
        /\ threads[t].hook = "OnContact"
        /\ threads' = [threads EXCEPT ![t] = Idle]
        /\ m_fLastCollisionTime' = stamps[1]
        /\ m_fLastRotorFeedbackTime' = stamps[2]
        /\ m_fLastSuppressionFeedbackTime' = stamps[3]
        /\ UNCHANGED <<now, seat, slotType, callVars, modVars, connVars>>
        /\ IF threads[t].owner = NoEntity
           THEN /\ UNCHANGED outVars
                /\ lastCall' = Call("OnContact", self, "error")
           ELSE \E impactSpeed \in ImpactSpeeds, impactDir \in Directions, yaw \in Yaws :
                \E angle \in CalculateImpactAngle(yaw, impactDir) :
                    LET intensity == Clamp(Abs(impactSpeed), 10, 100)
                    IN  /\ SendEvents(<<Event("vehicle_collision", angle, 0, intensity,
                                              currentTime)>>)
                        /\ lastCall' = Call("OnContact", self, "emitted")

\* OnUpdate up to "if (currentTime - m_fLastRotorFeedbackTime < ROTOR_FEEDBACK_INTERVAL)"
OnUpdateTest(t, self) ==
    \E owner \in {self, NoEntity}, pc \in BOOLEAN, ce \in BOOLEAN, comp \in BOOLEAN,
       engineOn \in BOOLEAN :
        RunTest(t, "OnUpdate", self, owner,
                IsLocalPlayerPilot(owner, pc, ce, comp), engineOn,
                Debounced(now, m_fLastRotorFeedbackTime[self], ROTOR_FEEDBACK_INTERVAL))

\* OnUpdate from "m_fLastRotorFeedbackTime = currentTime" to its end
OnUpdateRest(t) ==
    LET self == threads[t].self
        currentTime == threads[t].currentTime
    IN  /\ threads[t].pc = "passed"
        /\ threads[t].hook = "OnUpdate"
        /\ threads' = [threads EXCEPT ![t] = Idle]
        /\ m_fLastRotorFeedbackTime' = [m_fLastRotorFeedbackTime EXCEPT ![self] = currentTime]
        /\ UNCHANGED <<m_fLastCollisionTime, m_fLastSuppressionFeedbackTime>>
        /\ UNCHANGED <<now, seat, slotType, callVars, modVars, connVars>>
        /\ SendEvents(<<Event("helicopter_rotor", 180, 0, GetRotorIntensity, currentTime)>>)
        /\ lastCall' = Call("OnUpdate", self, "emitted")

\* OnSuppressionUpdate up to
\* "if (currentTime - m_fLastSuppressionFeedbackTime < SUPPRESSION_FEEDBACK_INTERVAL)"
OnSuppressionUpdateTest(t, self) ==
    \E owner \in {self, NoEntity}, pc \in BOOLEAN, ce \in BOOLEAN,
       suppressionAmount \in SuppressionAmounts :
        RunTest(t, "OnSuppressionUpdate", self, owner,
                IsLocalPlayer(owner, pc, ce), suppressionAmount >= 10,
                Debounced(now, m_fLastSuppressionFeedbackTime[self],
                          SUPPRESSION_FEEDBACK_INTERVAL))

\* OnSuppressionUpdate from "m_fLastSuppressionFeedbackTime = currentTime" to
\* its end
OnSuppressionUpdateRest(t) ==
    LET self == threads[t].self
        currentTime == threads[t].currentTime
    IN  /\ threads[t].pc = "passed"
        /\ threads[t].hook = "OnSuppressionUpdate"
        /\ threads' = [threads EXCEPT ![t] = Idle]
        /\ m_fLastSuppressionFeedbackTime' =
              [m_fLastSuppressionFeedbackTime EXCEPT ![self] = currentTime]
        /\ UNCHANGED <<m_fLastCollisionTime, m_fLastRotorFeedbackTime>>
        /\ UNCHANGED <<now, seat, slotType, callVars, modVars, connVars>>
        /\ \E suppressionAmount \in {a \in SuppressionAmounts : a >= 10},
              toSource \in Directions, yaw \in Yaws :
           \E angle \in CalculateAngleToSource(yaw, toSource) :
               /\ SendEvents(<<Event("player_suppressed", angle, 0,
                                     Clamp(suppressionAmount, 10, 100), currentTime)>>)
               /\ lastCall' = Call("OnSuppressionUpdate", self, "emitted")

\* ------------------------------------------- ThirdSpaceTcpClient state
IsConnected == s_bConnected

\* The value TryConnect assigns to s_bConnected: the connection attempt is
\* simulated and succeeds whether or not the daemon listens.
ConnectResult(reachable) == TRUE

TryConnect ==
    /\ Len(connectLog) < MaxAttempts
    /\ connectLog' = Append(connectLog, now)
    /\ s_bConnected' = ConnectResult(daemonUp)
    /\ lastCall' = Call("TryConnect", NoEntity, IF s_bConnected' THEN "true" ELSE "false")
    /\ UNCHANGED <<now, worldVars, timerVars, s_fLastReconnectAttempt, daemonUp, outVars>>

Disconnect_Toggle ==
    /\ s_bConnected' = ~s_bConnected
    /\ lastCall' = Call("Disconnect", NoEntity, "done")
    /\ UNCHANGED <<now, worldVars, timerVars, s_fLastReconnectAttempt, daemonUp, connectLog, outVars>>

Disconnect ==
    /\ s_bConnected' = FALSE
    /\ lastCall' = Call("Disconnect", NoEntity, "done")
    /\ UNCHANGED <<now, worldVars, timerVars, s_fLastReconnectAttempt, daemonUp, connectLog, outVars>>

\* The daemon process exits (the peer closes), or is started.
DaemonStops ==
    /\ daemonUp
    /\ daemonUp' = FALSE
    /\ lastCall' = NoCall
    /\ UNCHANGED <<now, worldVars, timerVars, s_bConnected, s_fLastReconnectAttempt, connectLog, outVars>>

DaemonStarts ==
    /\ ~daemonUp
    /\ daemonUp' = TRUE
    /\ lastCall' = NoCall
    /\ UNCHANGED <<now, worldVars, timerVars, s_bConnected, s_fLastReconnectAttempt, connectLog, outVars>>

\* ----------------------------------------------- ThirdSpaceVestModClass
\* The entities of class ThirdSpaceVestModClass the engine may create.
Mods == {"M1", "M2", "M3", "M4"}

\* static ThirdSpaceVestModClass GetInstance()
GetInstance == s_Instance

\* The constructor, run for the new instance self.
Construct(self) ==
    /\ self \notin alive
    /\ alive' = alive \cup {self}
    /\ s_Instance' = self
    /\ lastCall' = Call("ThirdSpaceVestModClass", self, "constructed")
    /\ UNCHANGED <<now, seat, slotType, callVars, threads, timerVars, connVars, outVars>>

\* The destructor, run for the live instance self.
Destruct(self) ==
    /\ self \in alive
    /\ alive' = alive \ {self}
    /\ s_Instance' = NoEntity
    /\ lastCall' = Call("~ThirdSpaceVestModClass", self, "destroyed")
    /\ UNCHANGED <<now, seat, slotType, callVars, threads, timerVars, connVars, outVars>>

\* A caller asks for the instance.
GetInstanceCall ==
    /\ lastCall' = Call("GetInstance", GetInstance, "returned")
    /\ UNCHANGED <<now, worldVars, timerVars, connVars, outVars>>

\* ------------------------------------------------------- environment
\* GetGame().GetTime() advances.
AdvanceTime ==
    /\ now < MaxTime
    /\ now' = now + 1
    /\ lastCall' = NoCall
    /\ UNCHANGED <<worldVars, timerVars, connVars, outVars>>

\* The local player enters, leaves or changes a vehicle compartment.
ChangeSeat ==
    /\ \E v \in Seats, t \in SlotTypes :
        /\ seat' = v
        /\ slotType' = IF v = NoEntity THEN "none" ELSE t
        /\ <<v, slotType'>> # <<seat, slotType>>
    /\ lastCall' = NoCall
    /\ UNCHANGED <<callVars, threads, modVars>>
    /\ UNCHANGED <<now, timerVars, connVars, outVars>>

\* ------------------------------------------------------------- Init

InitState ==
    /\ now = 0
    /\ seat = NoEntity
    /\ slotType = "none"
    /\ m_fLastCollisionTime = [v \in Vehicles |-> 0]
    /\ m_fLastRotorFeedbackTime = [h \in Helis |-> 0]
    /\ m_fLastSuppressionFeedbackTime = [c \in Chars |-> 0]
    /\ s_bConnected = FALSE
    /\ s_fLastReconnectAttempt = 0
    /\ daemonUp \in BOOLEAN
    /\ sent = <<>>
    /\ wire = <<>>
    /\ connectLog = <<>>
    /\ result = <<>>
    /\ lastCall = NoCall
    /\ threads = [t \in Threads |-> Idle]
    /\ s_Instance = NoEntity
    /\ alive = {}
    /\ script = NoScript

Init ==
    /\ InitState
    /\ args = NoArgs
    /\ scene = NoScene

\* The encoder on its own: BuildEventJson is about to be called with args.
InitEncode ==
    /\ InitState
    /\ args \in EncoderInputs
    /\ scene = NoScene

\* The hooks that take a position: the observer and the target are placed,
\* the local player on foot or in the vehicle V1.
InitScene ==
    /\ now = 0
    /\ seat \in {NoEntity, "V1"}
    /\ slotType = (IF seat = NoEntity THEN "none" ELSE "CARGO")
    /\ m_fLastCollisionTime = [v \in Vehicles |-> 0]
    /\ m_fLastRotorFeedbackTime = [h \in Helis |-> 0]
    /\ m_fLastSuppressionFeedbackTime = [c \in Chars |-> 0]
    /\ s_bConnected = FALSE
    /\ s_fLastReconnectAttempt = 0
    /\ daemonUp = TRUE
    /\ sent = <<>>
    /\ wire = <<>>
    /\ connectLog = <<>>
    /\ result = <<>>
    /\ lastCall = NoCall
    /\ threads = [t \in Threads |-> Idle]
    /\ s_Instance = NoEntity
    /\ alive = {}
    /\ script = NoScript
    /\ args = NoArgs
    /\ scene \in Scenes

\* The debounced hooks under game time and seat changes.
NextDebounce ==
    \/ AdvanceTime
    \/ ChangeSeat
    \/ \E self \in Chars : OnSuppressionUpdate(self)
    \/ \E self \in Helis : OnUpdate(self)
    \/ \E self \in Vehicles : OnContact(self)

SpecDebounce == Init /\ [][NextDebounce]_vars

\* The one-shot weapon hooks under game time.
NextWeapon ==
    \/ AdvanceTime
    \/ \E self \in Weapons : OnWeaponFire(self)
    \/ \E self \in Weapons : OnReloadComplete(self)
    \/ \E self \in Grenades : OnThrow(self)

SpecWeapon == Init /\ [][NextWeapon]_vars

\* The TCP client: its callers, the daemon, and reload events as the source
\* of SendEvent calls.
NextConn ==
    \/ AdvanceTime
    \/ TryConnect
    \/ Disconnect
    \/ DaemonStops
    \/ DaemonStarts
    \/ \E self \in Weapons : OnReloadComplete(self)

SpecConn == Init /\ [][NextConn]_vars

\* The damage, heal, explosion and impact hooks in a scene.
NextScene ==
    \/ \E self \in Chars : OnDamage(self)
    \/ \E self \in Chars : OnHeal(self)
    \/ \E self \in Vehicles : VehicleOnDamage(self)
    \/ OnExplosion
    \/ OnImpact

SpecScene == InitScene /\ [][NextScene]_vars

\* The debounced hooks run by two engine threads, the local player in any
\* seat.
InitThreads ==
    /\ now = 0
    /\ seat \in Seats
    /\ slotType \in (IF seat = NoEntity THEN {"none"} ELSE SlotTypes)
    /\ m_fLastCollisionTime = [v \in Vehicles |-> 0]
    /\ m_fLastRotorFeedbackTime = [h \in Helis |-> 0]
    /\ m_fLastSuppressionFeedbackTime = [c \in Chars |-> 0]
    /\ s_bConnected = FALSE
    /\ s_fLastReconnectAttempt = 0
    /\ daemonUp = TRUE
    /\ sent = <<>>
    /\ wire = <<>>
    /\ connectLog = <<>>
    /\ result = <<>>
    /\ lastCall = NoCall
    /\ threads = [t \in Threads |-> Idle]
    /\ s_Instance = NoEntity
    /\ alive = {}
    /\ script = NoScript
    /\ args = NoArgs
    /\ scene = NoScene

NextThreads ==
    \/ AdvanceTime
    \/ \E t \in Threads, self \in Vehicles : OnContactTest(t, self)
    \/ \E t \in Threads : OnContactRest(t)
    \/ \E t \in Threads, self \in Helis : OnUpdateTest(t, self)
    \/ \E t \in Threads : OnUpdateRest(t)
    \/ \E t \in Threads, self \in Chars : OnSuppressionUpdateTest(t, self)
    \/ \E t \in Threads : OnSuppressionUpdateRest(t)

SpecThreads == InitThreads /\ [][NextThreads]_vars

\* Every hook of the mod, the hooks of one handler script at a time (the
\* hooks of different scripts share no variable), at the first game time at
\* which each debounced hook lets a call through, the local player in any
\* seat, in the scenes with yaw 0 and the target on the axis ahead or behind.
HookScenes ==
    {s \in Scenes : s.yaw = 0 /\ s.target[1] = 0 /\ s.target[2] = 0}

InitHooks ==
    /\ now = COLLISION_COOLDOWN
    /\ seat \in Seats
    /\ slotType \in (IF seat = NoEntity THEN {"none"} ELSE SlotTypes)
    /\ m_fLastCollisionTime = [v \in Vehicles |-> 0]
    /\ m_fLastRotorFeedbackTime = [h \in Helis |-> 0]
    /\ m_fLastSuppressionFeedbackTime = [c \in Chars |-> 0]
    /\ s_bConnected = FALSE
    /\ s_fLastReconnectAttempt = 0
    /\ daemonUp = TRUE
    /\ sent = <<>>
    /\ wire = <<>>
    /\ connectLog = <<>>
    /\ result = <<>>
    /\ lastCall = NoCall
    /\ threads = [t \in Threads |-> Idle]
    /\ s_Instance = NoEntity
    /\ alive = {}
    /\ args = NoArgs
    /\ scene \in HookScenes
    /\ script \in Scripts

NextHooks ==
    \/ script = "ThirdSpacePlayerDamageHandler" /\ \E self \in Chars : OnDamage(self)
    \/ script = "ThirdSpacePlayerDamageHandler" /\ \E self \in Chars : OnHeal(self)
    \/ script = "ThirdSpaceVehicleHandler" /\ \E self \in Vehicles : VehicleOnDamage(self)
    \/ script = "ThirdSpaceVehicleHandler" /\ \E self \in Vehicles : OnContact(self)
    \/ script = "ThirdSpaceVehicleHandler" /\ \E self \in Helis : OnUpdate(self)
    \/ script = "ThirdSpaceEnvironmentHandler" /\ OnExplosion
    \/ script = "ThirdSpaceEnvironmentHandler" /\ \E self \in Chars : OnSuppressionUpdate(self)
    \/ script = "ThirdSpaceEnvironmentHandler" /\ OnImpact
    \/ script = "ThirdSpaceWeaponHandler" /\ \E self \in Weapons : OnWeaponFire(self)
    \/ script = "ThirdSpaceWeaponHandler" /\ \E self \in Weapons : OnReloadComplete(self)
    \/ script = "ThirdSpaceWeaponHandler" /\ \E self \in Grenades : OnThrow(self)

SpecHooks == InitHooks /\ [][NextHooks]_vars

\* The mod entity: instances are created and destroyed, and callers ask
\* for the instance.
NextSingleton ==
    \/ \E self \in Mods : Construct(self)
    \/ \E self \in Mods : Destruct(self)
    \/ GetInstanceCall

SpecSingleton == Init /\ [][NextSingleton]_vars

\* The encoder: BuildEventJson applied to every argument tuple of
\* EncoderInputs.
NextEncode == BuildEventJsonCall

SpecEncode == InitEncode /\ [][NextEncode]_vars

\* The TCP client with the scheduling the code provides: game time keeps
\* advancing and the engine keeps calling OnUpdate of every helicopter
\* controller each frame; nothing in the mod calls TryConnect, so its
\* callers get no fairness.
NextLive ==
    \/ NextConn
    \/ \E self \in Helis : OnUpdate(self)

LiveConn ==
    /\ Init
    /\ [][NextLive]_vars
    /\ WF_vars(AdvanceTime)
    /\ \A self \in Helis : WF_vars(OnUpdate(self))

\* =================================================================
\* Properties
\* =================================================================
DebouncedHooks == {"OnContact", "OnUpdate", "OnSuppressionUpdate"}
OneShotHooks == {"OnWeaponFire", "OnReloadComplete", "OnThrow"}

CategoryOf(hook) ==
    CASE hook = "OnContact" -> "vehicle_collision"
      [] hook = "OnUpdate" -> "helicopter_rotor"
      [] hook = "OnSuppressionUpdate" -> "player_suppressed"
      [] OTHER -> "none"

IntervalOf(category) ==
    CASE category = "vehicle_collision" -> COLLISION_COOLDOWN
      [] category = "helicopter_rotor" -> ROTOR_FEEDBACK_INTERVAL
      [] category = "player_suppressed" -> SUPPRESSION_FEEDBACK_INTERVAL
      [] OTHER -> 0

DebouncedCategories == {CategoryOf(h) : h \in DebouncedHooks}

\* lastEmittedAt of the component a call ran on, before and after the step
LastEmittedAt(c) ==
    CASE c.hook = "OnContact" -> m_fLastCollisionTime[c.self]
      [] c.hook = "OnUpdate" -> m_fLastRotorFeedbackTime[c.self]
      [] c.hook = "OnSuppressionUpdate" -> m_fLastSuppressionFeedbackTime[c.self]

LastEmittedAtAfter(c) ==
    CASE c.hook = "OnContact" -> m_fLastCollisionTime'[c.self]
      [] c.hook = "OnUpdate" -> m_fLastRotorFeedbackTime'[c.self]
      [] c.hook = "OnSuppressionUpdate" -> m_fLastSuppressionFeedbackTime'[c.self]

\* the call reached the cool-down test and was suppressed or emitted by it
Decided(c) == c.hook \in DebouncedHooks /\ c.outcome \in {"debounced", "emitted"}

HasSent(category) == \E i \in 1..Len(sent) : sent[i].event = category

\* C1: for every debounced category and every event after the first
\* accepted one, the event is suppressed (nothing is sent) if and only if
\* now - lastEmittedAt < minInterval, and an accepted event sets
\* lastEmittedAt to now; with minInterval 0.5 the call at t = 0.0 emits (and
\* by the rule the calls at 0.3 and 0.6 then suppress and emit).
C1_DebounceRuleAndExample ==
    [][LET c == lastCall'
       IN  Decided(c) =>
             /\ HasSent(CategoryOf(c.hook)) =>
                  /\ (sent' = sent) <=> (now - LastEmittedAt(c) < IntervalOf(CategoryOf(c.hook)))
                  /\ (sent' # sent) => LastEmittedAtAfter(c) = now
             /\ (now = 0 /\ IntervalOf(CategoryOf(c.hook)) = 5) => sent' # sent]_vars

\* C2: the first event of a debounced category is always emitted, whatever
\* the time: a call is never suppressed while no event of its category has
\* been sent yet.
C2_FirstEventEmitted ==
    (lastCall.hook \in DebouncedHooks /\ lastCall.outcome = "debounced")
        => HasSent(CategoryOf(lastCall.hook))

\* C3: any two events of the same debounced category that reach SendEvent
\* have timestamps at least minInterval apart, whichever component
\* instances sent them.
C3_CategorySpacing ==
    \A i, j \in 1..Len(sent) :
        (i < j /\ sent[i].event = sent[j].event /\ sent[i].event \in DebouncedCategories)
            => sent[j].at - sent[i].at >= IntervalOf(sent[i].event)

\* C4: debounce timers of distinct categories are independent: a call of a
\* debounced hook, accepted or suppressed, leaves lastEmittedAt of every
\* component of another category unchanged, and a call is suppressed only on
\* account of the lastEmittedAt of its own component.
C4_IndependentTimers ==
    [][LET c == lastCall'
       IN  c.hook \in DebouncedHooks =>
             /\ c.hook # "OnContact" => m_fLastCollisionTime' = m_fLastCollisionTime
             /\ c.hook # "OnUpdate" => m_fLastRotorFeedbackTime' = m_fLastRotorFeedbackTime
             /\ c.hook # "OnSuppressionUpdate" =>
                    m_fLastSuppressionFeedbackTime' = m_fLastSuppressionFeedbackTime
             /\ c.outcome = "debounced" =>
                    now - LastEmittedAt(c) < IntervalOf(CategoryOf(c.hook))]_vars

\* Two events of different debounced categories were sent less than the
\* shortest interval apart: the second was not suppressed by the first.
C4_Witness ==
    \E i, j \in 1..Len(sent) :
        /\ i < j
        /\ sent[i].event \in DebouncedCategories
        /\ sent[j].event \in DebouncedCategories
        /\ sent[i].event # sent[j].event
        /\ sent[j].at - sent[i].at < ROTOR_FEEDBACK_INTERVAL

\* C5: when the cool-down test suppresses a call, the hook has no side
\* effect: nothing is sent or written, no time stamp changes and the
\* connection state is unchanged.
C5_SuppressedNoEffect ==
    [][(lastCall'.hook \in DebouncedHooks /\ lastCall'.outcome = "debounced")
          => UNCHANGED <<sent, wire, timerVars, connVars, now, worldVars>>]_vars

\* A call was suppressed after an event of its category had been accepted.
C5_Witness ==
    /\ lastCall.hook \in DebouncedHooks
    /\ lastCall.outcome = "debounced"
    /\ HasSent(CategoryOf(lastCall.hook))
    /\ LastEmittedAt(lastCall) > 0
    /\ now > LastEmittedAt(lastCall)

OneShotCategories(hook) ==
    CASE hook = "OnWeaponFire" ->
            {"weapon_fire_rifle", "weapon_fire_mg", "weapon_fire_pistol", "weapon_fire_launcher"}
      [] hook = "OnReloadComplete" -> {"weapon_reload"}
      [] hook = "OnThrow" -> {"grenade_throw"}
      [] OTHER -> {}

\* C6: the one-shot categories are unthrottled: every invocation of a
\* weapon-fire, reload or grenade hook that passes the local-player test
\* makes exactly one SendEvent call, of its category, however short the time
\* since the previous event of that category.
C6_OneShotUnthrottled ==
    [][(lastCall'.hook \in OneShotHooks /\ lastCall'.outcome = "passed")
          => /\ Len(sent') = Len(sent) + 1
             /\ SubSeq(sent', 1, Len(sent)) = sent
             /\ sent'[Len(sent')].event \in OneShotCategories(lastCall'.hook)
             /\ sent'[Len(sent')].at = now]_vars

\* Two events of one one-shot category were sent at the same game time.
C6_Witness ==
    \E i, j \in 1..Len(sent) :
        /\ i < j
        /\ sent[i].event = sent[j].event
        /\ sent[i].event \in UNION {OneShotCategories(h) : h \in OneShotHooks}
        /\ sent[i].at = sent[j].at

\* C7: while the connection state is not Connected, SendEvent writes
\* nothing to the daemon, and no event is kept for later: nothing is written
\* in a step that starts unconnected (the reconnecting TryConnect included),
\* and whatever a step writes is exactly what it submitted.
C7_NoDeliveryWhileDisconnected ==
    [][/\ ~s_bConnected => wire' = wire
       /\ wire' # wire =>
            /\ Len(wire') - Len(wire) = Len(sent') - Len(sent)
            /\ \A k \in 1..(Len(wire') - Len(wire)) :
                   wire'[Len(wire) + k] = sent'[Len(sent) + k]]_vars

\* An event was submitted before the first connection attempt, the client
\* is connected now, and nothing has reached the daemon.
C7_Witness ==
    /\ Len(sent) > 0
    /\ Len(connectLog) > 0
    /\ sent[1].at < connectLog[1]
    /\ s_bConnected
    /\ wire = <<>>

\* C8: a connection attempt made while disconnected comes at least
\* RECONNECT_INTERVAL after the previous attempt, and submitting events
\* causes no connection attempt.
C8_ReconnectCooldown ==
    [][/\ (lastCall'.hook = "TryConnect" /\ ~s_bConnected /\ Len(connectLog) > 0)
             => now - connectLog[Len(connectLog)] >= RECONNECT_INTERVAL
       /\ lastCall'.hook \in OneShotHooks => connectLog' = connectLog]_vars

\* C9: the state becomes Connected only through a TryConnect that reports
\* success, and submitting an event while Connected to a daemon that has
\* gone (the write fails, the peer has closed) leaves the state
\* Disconnected, the event not being written again later.
C9_StateMachine ==
    [][/\ (~s_bConnected /\ s_bConnected')
             => (lastCall'.hook = "TryConnect" /\ lastCall'.outcome = "true")
       /\ (s_bConnected /\ ~daemonUp /\ Len(sent') > Len(sent))
             => (~s_bConnected' /\ wire' = wire)]_vars

\* C10: if the daemon is and stays reachable, a Disconnected connection
\* eventually becomes Connected again.
C10_SelfHealing == ([]daemonUp) => ((~s_bConnected) ~> s_bConnected)

\* C11: a TryConnect made while the daemon endpoint is unreachable reports
\* failure (returns false), leaves the state Disconnected, so that
\* IsConnected() is false, and returns to its caller.
C11_UnreachableConnectFails ==
    [][(lastCall'.hook = "TryConnect" /\ ~daemonUp)
          => (lastCall'.outcome = "false" /\ ~s_bConnected')]_vars

\* C12: Disconnect is idempotent: a call from any connection state leaves the
\* state Disconnected and changes nothing else, so any further call leaves
\* exactly the state the first one left.
C12_DisconnectIdempotent ==
    [][lastCall'.hook = "Disconnect"
          => /\ ~s_bConnected'
             /\ ~IsConnected'
             /\ (~s_bConnected => s_bConnected' = s_bConnected)
             /\ UNCHANGED <<now, worldVars, timerVars, s_fLastReconnectAttempt,
                            daemonUp, connectLog, outVars>>]_vars

\* Disconnect was called after a connection attempt had set the state
\* Connected, and the state is Disconnected.
C12_Witness ==
    /\ lastCall.hook = "Disconnect"
    /\ Len(connectLog) > 0
    /\ ~s_bConnected

\* C13: no hook invocation ends in an error raised into the engine's
\* event-handling path: whatever host objects are absent (null owner, null
\* player controller, null controlled entity, player in no vehicle), the
\* invocation returns normally, having sent an event or nothing.
C13_HooksReturnNormally == lastCall.outcome # "error"

\* The message BuildEventJson returned, as the daemon reads it.
Parsed == ParseJson(result)
Encoded == lastCall.hook = "BuildEventJson"

\* C14: an encoded message has an intensity field if and only if the
\* intensity of the event is greater than 0; for an intensity of 0 or less
\* the message ends after the damage field.
C14_IntensityFieldIffPositive ==
    Encoded =>
        /\ Parsed.ok
        /\ HasField(Parsed, KeyIntensity) <=> args.intensity > 0
        /\ args.intensity <= 0 => FieldNames(Parsed)[Len(Parsed.members)] = KeyDamage

\* An event of intensity 0 was encoded, and its message ends after the
\* damage field.
C14_Witness ==
    /\ Encoded
    /\ args.intensity = 0
    /\ ~HasField(Parsed, KeyIntensity)
    /\ FieldNames(Parsed)[Len(Parsed.members)] = KeyDamage

\* C15: the fields of every encoded message are cmd, event, angle, damage
\* and then possibly intensity, in this order and with no other field, and
\* cmd is the string armareforger_event for every event type.
C15_FieldOrderAndCmd ==
    Encoded =>
        /\ Parsed.ok
        /\ FieldNames(Parsed) \in
              {<<KeyCmd, KeyEvent, KeyAngle, KeyDamage>>,
               <<KeyCmd, KeyEvent, KeyAngle, KeyDamage, KeyIntensity>>}
        /\ Parsed.members[1].quoted
        /\ Parsed.members[1].text =
              <<"a", "r", "m", "a", "r", "e", "f", "o", "r", "g", "e", "r", "_",
                "e", "v", "e", "n", "t">>

\* A message with five fields was built for an event type other than the
\* player's damage.
C15_Witness ==
    /\ Encoded
    /\ Len(Parsed.members) = 5
    /\ args.event = "grenade_throw"

ExampleScene ==
    [origin |-> <<0, 0, 0>>, yaw |-> 0, target |-> <<0, 0, 0 - 5 * Metre>>, damage |-> 20]

ExamplePayload ==
    <<"{", "\"", "c", "m", "d", "\"", ":", "\"", "a", "r", "m", "a", "r", "e", "f",
      "o", "r", "g", "e", "r", "_", "e", "v", "e", "n", "t", "\"", ",", "\"", "e",
      "v", "e", "n", "t", "\"", ":", "\"", "p", "l", "a", "y", "e", "r", "_", "d",
      "a", "m", "a", "g", "e", "\"", ",", "\"", "a", "n", "g", "l", "e", "\"", ":",
      "1", "8", "0", ",", "\"", "d", "a", "m", "a", "g", "e", "\"", ":", "2", "0",
      "}">>

\* C17: in the example scene, an OnDamage of the local player's character
\* sends a player_damage event whose payload is exactly
\* {"cmd":"armareforger_event","event":"player_damage","angle":180,"damage":20}:
\* angle 180, the damage of the hit, no intensity field.
C17_EndToEndExample ==
    [][(scene = ExampleScene /\ lastCall'.hook = "OnDamage"
            /\ lastCall'.outcome \notin {"gated"})
          => /\ Len(sent') > Len(sent)
             /\ sent'[Len(sent) + 1].event = "player_damage"
             /\ Payload(sent'[Len(sent) + 1]) = ExamplePayload]_vars

\* The example hit was reported: a player_damage event with angle 180 and
\* damage 20 was sent in the example scene.
C17_Witness ==
    /\ scene = ExampleScene
    /\ lastCall = Call("OnDamage", LocalCharacter, "emitted")
    /\ Len(sent) = 1
    /\ sent[1].event = "player_damage"
    /\ sent[1].angle = 180
    /\ sent[1].damage = 20

\* The events whose angle a bearing calculation gave, and the horizontal
\* offset of the target from the observer.
DirectionalCategories ==
    {"player_damage", "player_death", "vehicle_damage", "vehicle_explosion",
     "explosion_nearby", "bullet_impact_near", "player_suppressed", "vehicle_collision"}
Offset == Horizontal(VectorSub(scene.target, scene.origin))

\* The bearing of the target when it lies 5 m straight ahead of the
\* observer, to its left, behind it or to its right; a left turn of the
\* forward vector <<fx, fz>> is <<-fz, fx>>.
ExpectedBearing ==
    LET fx == SinDeg(scene.yaw) * 5 * Metre
        fz == CosDeg(scene.yaw) * 5 * Metre
    IN  CASE Offset = <<fx, fz>> -> 0
          [] Offset = <<0 - fz, fx>> -> 90
          [] Offset = <<0 - fx, 0 - fz>> -> 180
          [] Offset = <<fz, 0 - fx>> -> 270

\* C18: for each yaw that is a multiple of 90 degrees, the angle sent for a
\* target straight ahead of the observer is 0, for one to its left 90, for
\* one behind it 180 and for one to its right 270.
C18_CompassBearings ==
    \A i \in 1..Len(sent) :
        (sent[i].event \in DirectionalCategories /\ scene.target \in AxisTargets)
            => sent[i].angle = ExpectedBearing

\* An observer with yaw 270 was told of an explosion 5 m to its right, at
\* 270 degrees.
C18_Witness ==
    \E i \in 1..Len(sent) :
        /\ scene.yaw = 270
        /\ scene.target = <<0, 0, 5 * Metre>>
        /\ sent[i].event = "explosion_nearby"
        /\ sent[i].angle = 270

\* C19: every angle passed to SendEvent is at least 0 and less than 360.
C19_AngleInRange ==
    \A i \in 1..Len(sent) : sent[i].angle >= 0 /\ sent[i].angle < 360

\* C20: when the target has the horizontal position of the observer, the
\* angle sent is exactly 0.
C20_DegenerateBearingIsZero ==
    \A i \in 1..Len(sent) :
        (sent[i].event \in DirectionalCategories /\ Offset = <<0, 0>>)
            => sent[i].angle = 0

\* C21: when two threads run the same debounced hook of one component at
\* times less than minInterval apart, at most one of the invocations emits:
\* an invocation that emits finds, when it assigns the time stamp, no
\* emission recorded less than minInterval before the time it read.
C21_AtMostOneEmits ==
    [][\A t \in Threads :
          (threads[t].pc = "passed" /\ threads'[t].pc = "idle"
               /\ lastCall'.outcome = "emitted")
            => ~Debounced(threads[t].currentTime, LastEmittedAt(lastCall'),
                          IntervalOf(CategoryOf(lastCall'.hook)))]_vars

\* C22: every intensity passed to SendEvent is 0 (no override) or lies in
\* the range 1 to 10, whichever hook sent it and whatever its heal amount,
\* distance, suppression amount or impact speed.
C22_IntensityInRange ==
    \A i \in 1..Len(sent) :
        sent[i].intensity = 0 \/ (sent[i].intensity >= 10 /\ sent[i].intensity <= 100)

\* An explosion 48 m away, whose formula gives 0.4, was reported with
\* intensity 1, and then a suppression of 1.5, whose formula gives 15, with
\* intensity 10.
C22_Witness ==
    /\ Len(sent) = 2
    /\ scene.target = DistantTarget
    /\ sent[1].event = "explosion_nearby"
    /\ sent[1].intensity = 10
    /\ sent[2].event = "player_suppressed"
    /\ sent[2].intensity = 100

DamageHooks == {"OnDamage", "VehicleOnDamage"}
DamageHookCategories ==
    {"player_damage", "player_death", "vehicle_damage", "vehicle_explosion"}

DamageCategory(hook) == IF hook = "OnDamage" THEN "player_damage" ELSE "vehicle_damage"
TerminalCategory(hook) == IF hook = "OnDamage" THEN "player_death" ELSE "vehicle_explosion"

\* C24: a damage hook that passes the local-player test with a damage
\* greater than 0 sends, when the health is at or below zero afterwards,
\* exactly two events, the damage event first and the terminal event second
\* with the same angle, and when the health stays above zero the damage event
\* only.
C24_LethalOrdering ==
    [][(lastCall'.hook \in DamageHooks /\ lastCall'.outcome \in {"emitted", "terminal"})
          => LET n == Len(sent)
                 hook == lastCall'.hook
             IN  /\ SubSeq(sent', 1, n) = sent
                 /\ Len(sent') > n
                 /\ sent'[n + 1].event = DamageCategory(hook)
                 /\ lastCall'.outcome = "emitted" => Len(sent') = n + 1
                 /\ lastCall'.outcome = "terminal" =>
                        /\ Len(sent') = n + 2
                        /\ sent'[n + 2].event = TerminalCategory(hook)
                        /\ sent'[n + 2].angle = sent'[n + 1].angle]_vars

\* A lethal hit from behind on the local player's character was reported
\* as player_damage and then player_death, both at 180 degrees.
C24_Witness ==
    /\ lastCall = Call("OnDamage", LocalCharacter, "terminal")
    /\ Len(sent) = 2
    /\ sent[1].event = "player_damage"
    /\ sent[2].event = "player_death"
    /\ sent[1].angle = 180
    /\ sent[2].angle = 180

\* C25: a debounce time stamp changes only in a hook invocation that also
\* sends an event of its category; an invocation that ends at the
\* local-player test, at the engine or suppression-amount test or on a
\* missing owner leaves every time stamp as it was.
C25_StampOnlyWithEvent ==
    [][/\ timerVars' # timerVars =>
            /\ lastCall'.hook \in DebouncedHooks
            /\ Len(sent') = Len(sent) + 1
            /\ sent'[Len(sent')].event = CategoryOf(lastCall'.hook)
       /\ lastCall'.outcome \in {"gated", "filtered", "noowner", "error"}
              => timerVars' = timerVars]_vars

\* C26: a hook that runs on a component of an entity other than the local
\* player's character, or of a vehicle other than the one whose compartment
\* holds the local player, sends nothing.
C26_LocalPlayerGating ==
    [][LET c == lastCall'
       IN  /\ (c.hook = "OnSuppressionUpdate" /\ c.self # LocalCharacter) => sent' = sent
           /\ (c.hook \in {"OnContact", "OnUpdate"} /\ c.self # seat) => sent' = sent]_vars

\* C27: GetInstance() returns a live instance whenever at least one instance
\* is alive, and null only when none is alive.
C27_SingletonLifecycle ==
    /\ alive # {} => GetInstance \in alive
    /\ GetInstance = NoEntity => alive = {}

====
